---- MODULE Spec2Model ----
(***************************************************************************)
(* NextClient: a fluent HTTP request builder.                              *)
(*                                                                         *)
(* Three generations of the request pipeline live in the repository and    *)
(* are modelled side by side:                                              *)
(*   "index" : src/src/index.ts   NextClient -> NextClientBody ->           *)
(*             NextBodyAppend -> Parser -> Executer                        *)
(*   "form"  : src/src/form.ts    ToPath.form / ToPath.send -> FormRequest  *)
(*   "json"  : src/src/json.ts    ToPath.json -> JsonRequest                *)
(*                                                                         *)
(* JavaScript values are tagged records [t |-> <type>, ...].  Field and     *)
(* query-parameter names are sequences of key tokens: <<"a","b","0">> is    *)
(* the name a[b][0].  Header maps and fetch option maps are functions from  *)
(* a finite set of names to strings.                                       *)
(***************************************************************************)
EXTENDS Integers, Sequences, FiniteSets, TLC

VARIABLES
    impl,       \* the pipeline the chain runs through: "index", or "legacy" until
                \* the first client's chain picks "form" or "json"
    stage,      \* position of the chain: "client" | "body" | "append" | "inflight" |
                \* "settled", or "failed" when a builder step threw
    client,     \* the client object: [baseUrl, prefix, headers, opts]
    config,     \* the request being built (NextBodyAppendConfig / ToPath + request fields)
    sendArgs,   \* what the caller handed to send(): [headers, opts]
    fetchCall,  \* the argument list of the transport call, or NoCall
    aborted,    \* the caller triggered its cancellation token while the call was in flight
    response,   \* the response the transport delivered, or NoResponse
    outcome,    \* how send() ended: [kind, err, status, data, reads]
    handled,    \* what handleNextError did with the error: the arguments of each
                \* callback invocation, and the number of pass invocations
    heap,       \* the objects held by reference: payload objects, FormData objects
                \* and builder objects, by address
    refs        \* the caller's variables: the addresses of d, b1 and b2

vars == <<impl, stage, client, config, sendArgs, fetchCall, aborted, response, outcome,
          handled, heap, refs>>

----------------------------------------------------------------------------
(* JavaScript values *)

Undefined == [t |-> "undefined"]
Null      == [t |-> "null"]
Str(s)    == [t |-> "string", s |-> s]
Num(n)    == [t |-> "number", n |-> n]
Bool(b)   == [t |-> "boolean", b |-> b]
BigIntV   == [t |-> "bigint"]
FileV(n)  == [t |-> "file", name |-> n]
BlobV(n)  == [t |-> "blob", name |-> n]
Arr(xs)   == [t |-> "array", items |-> xs]
Obj(es)   == [t |-> "object", entries |-> es]
Joined(p) == [t |-> "joined", parts |-> p]

\* Number.prototype.toString for the numbers the model uses, and array indices.
NumStr(n) ==
    CASE n = 0 -> "0" [] n = 1 -> "1" [] n = 2 -> "2" [] n = 3 -> "3"
      [] n = 7 -> "7" [] OTHER -> "n"

\* typeof v === "object"
TypeofObject(v) == v.t \in {"null", "file", "blob", "array", "object"}

\* JavaScript truthiness
Truthy(v) ==
    CASE v.t \in {"undefined", "null"} -> FALSE
      [] v.t = "string"  -> v.s # ""
      [] v.t = "number"  -> v.n # 0
      [] v.t = "boolean" -> v.b
      [] OTHER -> TRUE

\* Own enumerable [key, value] pairs, as for..in with hasOwnProperty and
\* Object.entries see them.  A File or Blob has none.
Entries(v) ==
    CASE v.t = "object" -> v.entries
      [] v.t = "array"  -> [i \in 1..Len(v.items) |-> <<NumStr(i - 1), v.items[i]>>]
      [] OTHER -> <<>>

\* v?.toString() || ""
RECURSIVE ToStr(_)
ToStr(v) ==
    CASE v.t \in {"undefined", "null"} -> Str("")
      [] v.t = "string"  -> v
      [] v.t = "number"  -> Str(NumStr(v.n))
      [] v.t = "boolean" -> Str(IF v.b THEN "true" ELSE "false")
      [] v.t = "bigint"  -> Str("1")
      [] v.t = "file"    -> Str("[object File]")
      [] v.t = "blob"    -> Str("[object Blob]")
      [] v.t = "object"  -> Str("[object Object]")
      [] v.t = "array"   ->
            IF Len(v.items) = 0 THEN Str("")
            ELSE Joined([i \in 1..Len(v.items) |-> ToStr(v.items[i])])
      [] OTHER -> v

----------------------------------------------------------------------------
(* FormEncoder: Parser.jsonToFormData *)

\* FormData.set in the place of append: one field per name, the last value
FormSet(fd, name, value) ==
    Append(SelectSeq(fd, LAMBDA f : f.name # name), [name |-> name, value |-> value])

\* an append that leaves out a field whose value is empty
FormAppendSkipEmpty(fd, name, value) ==
    IF value = Str("") THEN fd ELSE Append(fd, [name |-> name, value |-> value])

\* FormData.append
FormAppend(fd, name, value) == Append(fd, [name |-> name, value |-> value])

\* every element of an array under the key of the array itself
ArrayKeyUnindexed(formKey, index) == formKey

\* arrayKey: `${formKey}[${index}]`
ArrayKey(formKey, index) == Append(formKey, NumStr(index))

\* a file under its own qualified key parent[key]
FileKeyQualified(parentKey, key) == Append(parentKey, key)

\* formKeyFile: parentKey || key
FileKey(parentKey, key) == IF parentKey # <<>> THEN parentKey ELSE <<key>>

\* the forEach over a non-empty array value
RECURSIVE ArrayToForm(_, _, _, _)
ArrayToForm(items, i, fd, formKey) ==
    IF i > Len(items) THEN fd
    ELSE LET item == items[i]
             arrayKey == ArrayKey(formKey, i - 1)
         IN  ArrayToForm(items, i + 1,
                 IF item.t = "file"
                 THEN FormAppend(fd, formKey, item)
                 ELSE FormAppend(fd, arrayKey, ToStr(item)),
                 formKey)

RECURSIVE jsonToFormData(_, _, _)
RECURSIVE EntriesToForm(_, _, _, _)
EntriesToForm(es, i, fd, parentKey) ==
    IF i > Len(es) THEN fd
    ELSE LET key     == es[i][1]
             value   == es[i][2]
             formKey == IF parentKey # <<>> THEN Append(parentKey, key) ELSE <<key>>
             formKeyFile == FileKey(parentKey, key)
             fd2 ==
                 IF value.t = "file" THEN FormAppend(fd, formKeyFile, value)
                 ELSE IF value.t = "array" THEN
                     IF Len(value.items) = 0
                     THEN FormAppend(fd, formKey, Str(""))
                     ELSE ArrayToForm(value.items, 1, fd, formKey)
                 ELSE IF Truthy(value) /\ TypeofObject(value)
                 THEN jsonToFormData(value, fd, formKey)
                 ELSE FormAppend(fd, formKey, ToStr(value))
         IN  EntriesToForm(es, i + 1, fd2, parentKey)

jsonToFormData(jsonObject, formData, parentKey) ==
    EntriesToForm(Entries(jsonObject), 1, formData, parentKey)

\* jsonObject.hasOwnProperty(key) is a TypeError when the object has an own key
\* "hasOwnProperty" whose value is no function
ShadowsHasOwnProperty(v) ==
    v.t = "object" /\ \E i \in 1..Len(v.entries) : v.entries[i][1] = "hasOwnProperty"

\* jsonToFormData throws: at the object itself or at a nested object it recurses into
RECURSIVE FormThrows(_)
FormThrows(jsonObject) ==
    \/ ShadowsHasOwnProperty(jsonObject)
    \/ /\ jsonObject.t = "object"
       /\ \E i \in 1..Len(jsonObject.entries) :
              LET value == jsonObject.entries[i][2]
              IN  /\ value.t \notin {"file", "array"}
                  /\ Truthy(value) /\ TypeofObject(value)
                  /\ FormThrows(value)

\* the flat encoder of form.js looks at the top-level object only
LegacyFormThrows(jsonObject) == ShadowsHasOwnProperty(jsonObject)

\* String(v), the conversion FormData.append applies to a value that is no Blob
StringOf(v) ==
    CASE v.t = "undefined" -> Str("undefined")
      [] v.t = "null"      -> Str("null")
      [] OTHER -> ToStr(v)

\* jsonToFormData of the compiled form.js: one field per own key, no recursion
RECURSIVE LegacyEntriesToForm(_, _, _)
LegacyEntriesToForm(es, i, fd) ==
    IF i > Len(es) THEN fd
    ELSE LegacyEntriesToForm(es, i + 1,
             FormAppend(fd, <<es[i][1]>>,
                        IF es[i][2].t \in {"file", "blob"} THEN es[i][2]
                        ELSE StringOf(es[i][2])))

LegacyJsonToFormData(jsonObject) == LegacyEntriesToForm(Entries(jsonObject), 1, <<>>)

----------------------------------------------------------------------------
(* QueryEncoder and URL resolution *)

Threw(sp) == [threw |-> TRUE,  list |-> sp]
Okay(sp)  == [threw |-> FALSE, list |-> sp]

\* URLSearchParams.append in the place of set: one more parameter every time
SearchAppend(sp, name, value) == Append(sp, [name |-> name, value |-> value])

\* URLSearchParams.set: the first parameter of that name takes the value and the
\* others of that name are removed; a new name is appended.
SearchSet(sp, name, value) ==
    IF \E i \in 1..Len(sp) : sp[i].name = name
    THEN LET first == CHOOSE i \in 1..Len(sp) :
                          /\ sp[i].name = name
                          /\ \A j \in 1..(i - 1) : sp[j].name # name
         IN  SubSeq(sp, 1, first - 1)
                 \o <<[name |-> name, value |-> value]>>
                 \o SelectSeq(SubSeq(sp, first + 1, Len(sp)), LAMBDA e : e.name # name)
    ELSE Append(sp, [name |-> name, value |-> value])

\* A key as the name it spells: the key written "a[b]" is the name a[b], the
\* same name the key b nested under the key a resolves to.
KeyTokens(key) == IF key = "a[b]" THEN <<"a", "b">> ELSE <<key>>

\* Parser.setSearchParams.addParam; prefix is "" at the only call site, so the
\* name of a nested parameter is key[nestedKey].
RECURSIVE addParam(_, _, _)
RECURSIVE AddParams(_, _, _, _)
AddParams(r, es, i, name) ==
    IF r.threw \/ i > Len(es) THEN r
    ELSE AddParams(addParam(r.list,
                            IF name = <<>> THEN KeyTokens(es[i][1])
                            ELSE Append(name, es[i][1]),
                            es[i][2]),
                   es, i + 1, name)

addParam(sp, name, value) ==
    IF TypeofObject(value) /\ value.t # "array"
    THEN IF value.t = "null" THEN Threw(sp)                 \* Object.entries(null)
         ELSE AddParams(Okay(sp), Entries(value), 1, name)
    ELSE IF value.t = "undefined" THEN Threw(sp)            \* undefined.toString()
         ELSE Okay(SearchSet(sp, name, ToStr(value)))

setSearchParams(params) == AddParams(Okay(<<>>), Entries(params), 1, <<>>)

\* The first NextClient's setSearchParams: flat, value.toString() for every entry.
RECURSIVE LegacyAddParams(_, _, _)
LegacyAddParams(r, es, i) ==
    IF r.threw \/ i > Len(es) THEN r
    ELSE LegacyAddParams(
             IF es[i][2].t \in {"undefined", "null"} THEN Threw(r.list)
             ELSE Okay(SearchSet(r.list, KeyTokens(es[i][1]), ToStr(es[i][2]))),
             es, i + 1)

LegacySetSearchParams(params) == LegacyAddParams(Okay(<<>>), Entries(params), 1)

\* new URL(path, base) accepts an absolute base only.
UrlParses(base) == base = "https://api.example.com"

\* Parser.generateUrl: [threw, url]
generateUrl(cfg) ==
    IF ~UrlParses(cfg.baseUrl) THEN [threw |-> TRUE, url |-> Undefined]
    ELSE LET sp == IF Truthy(cfg.query) THEN setSearchParams(cfg.query) ELSE Okay(<<>>)
         IN  IF sp.threw THEN [threw |-> TRUE, url |-> Undefined]
             ELSE [threw |-> FALSE,
                   url |-> [t |-> "url", base |-> cfg.baseUrl,
                            path |-> IF cfg.prefix # "" THEN <<cfg.prefix, cfg.path>>
                                     ELSE <<cfg.path>>,
                            search |-> sp.list]]

\* new URL(this.path, this.host); url.search = this.searchParams.toString()
LegacyUrl(cfg) ==
    IF ~UrlParses(cfg.baseUrl) THEN [threw |-> TRUE, url |-> Undefined]
    ELSE [threw |-> FALSE,
          url |-> [t |-> "url", base |-> cfg.baseUrl, path |-> <<cfg.path>>,
                   search |-> cfg.searchParams]]

----------------------------------------------------------------------------
(* JSON.stringify *)

RECURSIVE HasBigInt(_)
HasBigInt(v) ==
    CASE v.t = "bigint" -> TRUE
      [] v.t = "object" -> \E i \in 1..Len(v.entries) : HasBigInt(v.entries[i][2])
      [] v.t = "array"  -> \E i \in 1..Len(v.items) : HasBigInt(v.items[i])
      [] OTHER -> FALSE

\* The value the JSON text denotes: undefined members are left out, undefined
\* array items become null, a File or Blob becomes {}.
RECURSIVE JsonValue(_)
JsonValue(v) ==
    CASE v.t = "object" ->
            LET kept == SelectSeq(v.entries, LAMBDA e : e[2].t # "undefined")
            IN  Obj([i \in 1..Len(kept) |-> <<kept[i][1], JsonValue(kept[i][2])>>])
      [] v.t = "array" ->
            Arr([i \in 1..Len(v.items) |->
                    IF v.items[i].t = "undefined" THEN Null ELSE JsonValue(v.items[i])])
      [] v.t \in {"file", "blob"} -> Obj(<<>>)
      [] OTHER -> v

\* JSON.stringify(data): [threw, body]; JSON.stringify(undefined) is undefined.
Stringify(data) ==
    IF HasBigInt(data) THEN [threw |-> TRUE, body |-> Undefined]
    ELSE IF data.t = "undefined" THEN [threw |-> FALSE, body |-> Undefined]
    ELSE [threw |-> FALSE, body |-> [t |-> "jsontext", v |-> JsonValue(data)]]

----------------------------------------------------------------------------
(* Header maps and fetch option maps *)

EmptyMap == [n \in {} |-> ""]

\* { ...a, ...b }
Spread(a, b) ==
    [n \in (DOMAIN a) \cup (DOMAIN b) |-> IF n \in DOMAIN b THEN b[n] ELSE a[n]]

\* delete m[key]
DeleteKeyOf(m, key) == [n \in (DOMAIN m) \ {key} |-> m[n]]

\* HTTP header names are case-insensitive: the name as the transport compares it.
Lower(name) ==
    CASE name = "Content-Type" -> "content-type"
      [] name = "X-Trace"      -> "x-trace"
      [] OTHER -> name

HasHeader(h, lname) == \E n \in DOMAIN h : Lower(n) = lname

----------------------------------------------------------------------------
(* Responses and the two body-read operations *)

\* response.ok
Ok(r) == r.status \in 200..299

\* Statuses whose responses carry no body at all (a null body is never "used").
NullBodyStatus(status) == status \in {204, 304}

\* Body texts that are JSON, with the value each denotes; any other text makes
\* response.json() fail with a SyntaxError.
JsonParse(text) ==
    CASE text = "{\"x\":1}" -> [ok |-> TRUE,  value |-> Obj(<< <<"x", Num(1)>> >>)]
      [] text = "7"         -> [ok |-> TRUE,  value |-> Num(7)]
      [] OTHER              -> [ok |-> FALSE, value |-> Undefined]

Read(on, op, used) == [on |-> on, op |-> op, used |-> used]

\* body.json() on a body whose stream an earlier read has (used) or has not consumed
ReadJson(r, used) ==
    IF used /\ ~NullBodyStatus(r.status)
    THEN [ok |-> FALSE, err |-> "TypeError", value |-> Undefined]
    ELSE LET p == JsonParse(r.text)
         IN  IF p.ok THEN [ok |-> TRUE, err |-> "none", value |-> p.value]
             ELSE [ok |-> FALSE, err |-> "SyntaxError", value |-> Undefined]

\* body.text()
ReadText(r, used) ==
    IF used /\ ~NullBodyStatus(r.status)
    THEN [ok |-> FALSE, err |-> "TypeError", value |-> Undefined]
    ELSE [ok |-> TRUE, err |-> "none", value |-> Str(r.text)]

\* contentType.includes(needle), on content types split into tokens
Includes(ct, needle) ==
    \E i \in 0..(Len(ct) - Len(needle)) : SubSeq(ct, i + 1, i + Len(needle)) = needle

AppJson   == <<"application/", "json">>
TextSlash == <<"text/">>

----------------------------------------------------------------------------
(* Outcomes of send() *)

Pending == [kind |-> "pending", err |-> "none", status |-> 0, data |-> Undefined,
            reads |-> <<>>]
Resolved(status, data, reads) ==
    [kind |-> "resolved", err |-> "none", status |-> status, data |-> data, reads |-> reads]
Rejected(err, status, data, reads) ==
    [kind |-> "rejected", err |-> err, status |-> status, data |-> data, reads |-> reads]
ThrewSync(err) ==
    [kind |-> "threw", err |-> err, status |-> 0, data |-> Undefined, reads |-> <<>>]

\* new NextApiError(message, status, statusText, url, response)
NextApiError(status, body, reads) == Rejected("NextApiError", status, body, reads)

\* new HttpError(statusCode, responseText)
HttpError(statusCode, body, reads) == Rejected("HttpError", statusCode, body, reads)

\* Executer.exec as it would be if the error were built without the parsed body
ExecuterDecodeNoErrorBody(r) ==
    LET j  == ReadJson(r, FALSE)
        t  == ReadText(r, TRUE)
        rj == <<Read("response", "json", FALSE)>>
        rt == <<Read("response", "text", ~NullBodyStatus(r.status))>>
    IN  IF ~Ok(r)
        THEN NextApiError(r.status, Undefined, rj)
        ELSE IF j.ok THEN Resolved(r.status, j.value, rj)
             ELSE IF t.ok THEN Resolved(r.status, t.value, rj \o rt)
                  ELSE Rejected(t.err, 0, Undefined, rj \o rt)

\* Executer.exec after the response arrived
ExecuterDecode(r) ==
    LET j  == ReadJson(r, FALSE)
        t  == ReadText(r, TRUE)
        rj == <<Read("response", "json", FALSE)>>
        rt == <<Read("response", "text", ~NullBodyStatus(r.status))>>
    IN  IF ~Ok(r)
        THEN IF j.ok THEN NextApiError(r.status, j.value, rj)
             ELSE NextApiError(r.status, IF t.ok THEN t.value ELSE Undefined, rj \o rt)
        ELSE IF j.ok THEN Resolved(r.status, j.value, rj)
             ELSE IF t.ok THEN Resolved(r.status, t.value, rj \o rt)
                  ELSE Rejected(t.err, 0, Undefined, rj \o rt)

\* FormRequest.send as it would be if the content type were compared for equality
FormRequestDecodeExactType(r) ==
    IF ~Ok(r)
    THEN LET cj == ReadJson(r, FALSE)
             t  == ReadText(r, FALSE)
         IN  IF cj.ok THEN HttpError(r.status, cj.value, <<Read("clone", "json", FALSE)>>)
             ELSE HttpError(r.status, t.value,
                      <<Read("clone", "json", FALSE), Read("response", "text", FALSE)>>)
    ELSE IF r.contentType = AppJson
         THEN LET j == ReadJson(r, FALSE)
              IN  IF j.ok THEN Resolved(r.status, j.value, <<Read("response", "json", FALSE)>>)
                  ELSE Rejected(j.err, 0, Undefined, <<Read("response", "json", FALSE)>>)
    ELSE IF Includes(r.contentType, TextSlash) \/ r.contentType = <<>>
         THEN Resolved(r.status, ReadText(r, FALSE).value,
                       <<Read("response", "text", FALSE)>>)
    ELSE Rejected("Error", 0, Undefined, <<>>)

\* FormRequest.send after the response arrived
FormRequestDecode(r) ==
    IF ~Ok(r)
    THEN LET cj == ReadJson(r, FALSE)       \* on the clone
             t  == ReadText(r, FALSE)       \* on the response itself, still unread
         IN  IF cj.ok THEN HttpError(r.status, cj.value, <<Read("clone", "json", FALSE)>>)
             ELSE IF t.ok
                  THEN HttpError(r.status, t.value,
                          <<Read("clone", "json", FALSE), Read("response", "text", FALSE)>>)
                  ELSE Rejected(t.err, 0, Undefined,
                          <<Read("clone", "json", FALSE), Read("response", "text", FALSE)>>)
    ELSE IF Includes(r.contentType, AppJson)
         THEN LET j == ReadJson(r, FALSE)
              IN  IF j.ok THEN Resolved(r.status, j.value, <<Read("response", "json", FALSE)>>)
                  ELSE Rejected(j.err, 0, Undefined, <<Read("response", "json", FALSE)>>)
    ELSE IF Includes(r.contentType, TextSlash) \/ r.contentType = <<>>
         THEN Resolved(r.status, ReadText(r, FALSE).value,
                       <<Read("response", "text", FALSE)>>)
    ELSE Rejected("Error", 0, Undefined, <<>>)

\* JsonRequest.send after the response arrived
JsonRequestDecode(r) ==
    LET contentType == r.contentType
        statusCode  == r.status
    IN  IF ~Ok(r)
        THEN LET cj == ReadJson(r, FALSE)
                 t  == ReadText(r, FALSE)
                 rj == <<Read("clone", "json", FALSE)>>
                 rt == <<Read("response", "text", FALSE)>>
             IN  IF cj.ok THEN HttpError(statusCode, cj.value, rj)
                 ELSE IF t.ok THEN HttpError(statusCode, t.value, rj \o rt)
                      ELSE Rejected(t.err, 0, Undefined, rj \o rt)
        ELSE IF Includes(contentType, AppJson)
             THEN LET j == ReadJson(r, FALSE)
                      rj == <<Read("response", "json", FALSE)>>
                  IN  IF j.ok THEN Resolved(statusCode, j.value, rj)
                      ELSE Rejected(j.err, 0, Undefined, rj)
        ELSE IF Includes(contentType, TextSlash) \/ contentType = <<>>
             THEN Resolved(statusCode, ReadText(r, FALSE).value,
                           <<Read("response", "text", FALSE)>>)
        ELSE Rejected("Error", 0, Undefined, <<>>)

Decode(i, r) ==
    CASE i = "index" -> ExecuterDecode(r)
      [] i = "form"  -> FormRequestDecode(r)
      [] OTHER       -> JsonRequestDecode(r)

----------------------------------------------------------------------------
(* Inputs *)

\* how many set / delete / headers / append steps one chain takes
MaxChain == 1

Methods  == {"GET", "POST", "DELETE"}
BaseUrls == {"https://api.example.com", "api.example.com"}
ThePath  == "items"

JsonCT == "application/json"

ClientHeaders ==
    { EmptyMap, "Content-Type" :> JsonCT, "content-type" :> JsonCT }

CallHeaders ==
    { "Content-Type" :> "text/plain", "X-Trace" :> "1" }

Payloads ==
    { Undefined, Null,
      Obj(<< <<"a", Str("1")>> >>),
      Obj(<< <<"n", BigIntV>> >>) }

Queries ==
    { Undefined,
      Obj(<< <<"q", Num(1)>> >>),
      Obj(<< <<"q", Null>> >>) }

SetKeys   == {"a", "b"}
SetValues == { Str("2"), FileV("f1") }

\* ParamsSend / RequestInit values a caller may hand to send()
ParamSets ==
    { EmptyMap,
      "signal" :> "token",
      ("signal" :> "token") @@ ("credentials" :> "include")
          @@ ("mode" :> "same-origin") @@ ("referrerPolicy" :> "origin") }

Statuses == {200, 204, 299, 300, 304, 404}

ContentTypes ==
    { <<>>, AppJson, <<"application/", "json", "; charset=utf-8">>,
      <<"text/", "plain">>, <<"application/", "xml">> }

BodyTexts == {"{\"x\":1}", "7", "oops"}

Responses ==
    { [status |-> st, contentType |-> ct, text |-> tx] :
          st \in Statuses \ {204, 304}, ct \in ContentTypes, tx \in BodyTexts }
    \cup
    { [status |-> st, contentType |-> ct, text |-> ""] :
          st \in {204, 304}, ct \in ContentTypes }

NoCall     == [t |-> "nocall"]
NoResponse == [status |-> 0, contentType |-> <<>>, text |-> ""]
NoArgs     == [headers |-> EmptyMap, opts |-> EmptyMap]
NoRefs     == [d |-> 0, b1 |-> 0, b2 |-> 0, steps |-> 0]
NoHandling == [callbacks |-> <<>>, passes |-> 0, passGiven |-> FALSE]

BlankConfig ==
    [method |-> "GET", path |-> "", query |-> Undefined, searchParams |-> <<>>,
     data |-> Undefined, isForm |-> FALSE, formData |-> <<>>, headers |-> EmptyMap,
     baseUrl |-> "", prefix |-> "", opts |-> EmptyMap,
     mode |-> "none",     \* the body selector the chain called: "none" | "form" | "json"
     steps |-> 0,         \* set / delete / headers / append steps taken so far
     hsteps |-> <<>>,     \* the header maps the headers() steps were given, in order
     given |-> Undefined, \* the payload form(data) / json(data) was given
     ops |-> <<>>]        \* the set / delete calls made since, in order

----------------------------------------------------------------------------
(* Construction *)

\* new NextClient(config) of index.ts; new NextClient(baseUrl, init) of the first client
Clients(i) ==
    IF i = "index"
    THEN { [baseUrl |-> b, prefix |-> "", headers |-> h, opts |-> EmptyMap] :
               b \in BaseUrls, h \in ClientHeaders }
    ELSE { [baseUrl |-> b, prefix |-> "", headers |-> h,
            opts |-> IF h = EmptyMap THEN "cache" :> "no-store" ELSE EmptyMap] :
               b \in BaseUrls, h \in ClientHeaders }

Init ==
    /\ impl \in {"index", "legacy"}
    /\ client \in Clients(impl)
    /\ stage = "client"
    /\ config = BlankConfig
    /\ sendArgs = NoArgs
    /\ fetchCall = NoCall
    /\ aborted = FALSE
    /\ response = NoResponse
    /\ outcome = Pending
    /\ handled = NoHandling
    /\ heap = <<>>
    /\ refs = NoRefs

----------------------------------------------------------------------------
(* Builder steps *)

\* NextClient.createRequest
createRequest(method, path, query) ==
    [BlankConfig EXCEPT !.baseUrl = client.baseUrl, !.prefix = client.prefix,
                        !.headers = client.headers,
                        !.method = method, !.path = path, !.query = query]

\* get / post / ... of the first client: the query is encoded at once
LegacyVerb(method, path, sp) ==
    [BlankConfig EXCEPT !.baseUrl = client.baseUrl, !.headers = client.headers,
                        !.opts = client.opts,
                        !.method = method, !.path = path, !.searchParams = sp]

Verb(method, query) ==
    /\ stage = "client"
    /\ IF impl = "index"
       THEN /\ config' = createRequest(method, ThePath, query)
            /\ stage' = "body"
       ELSE LET sp == LegacySetSearchParams(IF query.t = "undefined" THEN Obj(<<>>) ELSE query)
            IN  IF sp.threw
                THEN /\ stage' = "failed"
                     /\ UNCHANGED config
                ELSE /\ config' = LegacyVerb(method, ThePath, sp.list)
                     /\ stage' = "body"
    /\ UNCHANGED <<heap, refs, handled, impl, client, sendArgs, fetchCall, aborted, response, outcome>>

\* NextClientBody.form; ToPath.form
SelectForm(data) ==
    /\ stage = "body"
    /\ IF impl = "index"
       THEN /\ config' = [config EXCEPT !.data = data, !.isForm = TRUE, !.mode = "form",
                                            !.given = data]
            /\ impl' = impl
       ELSE /\ config' = [config EXCEPT
                             !.isForm = TRUE, !.mode = "form", !.given = data,
                             !.formData = IF Truthy(data)
                                          THEN jsonToFormData(data, <<>>, <<>>)
                                          ELSE <<>>]
            /\ impl' = "form"
    /\ stage' = "append"
    /\ UNCHANGED <<heap, refs, handled, client, sendArgs, fetchCall, aborted, response, outcome>>

\* NextClientBody.json; ToPath.json
SelectJson(data) ==
    /\ stage = "body"
    /\ config' = [config EXCEPT !.data = data, !.isForm = FALSE, !.mode = "json",
                                !.given = data]
    /\ impl' = IF impl = "index" THEN impl ELSE "json"
    /\ stage' = "append"
    /\ UNCHANGED <<heap, refs, handled, client, sendArgs, fetchCall, aborted, response, outcome>>

\* { ...data, [key]: value }
SpreadSet(data, key, value) ==
    LET es == Entries(data)
    IN  IF \E i \in 1..Len(es) : es[i][1] = key
        THEN Obj([i \in 1..Len(es) |-> IF es[i][1] = key THEN <<key, value>> ELSE es[i]])
        ELSE Obj(Append(es, <<key, value>>))

\* NextBodyAppend.set
SetKey(key, value) ==
    /\ impl = "index" /\ stage = "append" /\ config.steps < MaxChain
    /\ config' = [config EXCEPT !.data = SpreadSet(config.data, key, value),
                                !.steps = @ + 1,
                                !.ops = Append(@, [op |-> "set", key |-> key,
                                                   value |-> value])]
    /\ UNCHANGED <<heap, refs, handled, impl, stage, client, sendArgs, fetchCall, aborted, response, outcome>>

\* NextBodyAppend.delete: delete currentData[key] throws on undefined data
DeleteKey(key) ==
    /\ impl = "index" /\ stage = "append" /\ config.steps < MaxChain
    /\ IF config.data.t \in {"undefined", "null"}
       THEN /\ stage' = "failed"
            /\ UNCHANGED config
       ELSE /\ config' = [config EXCEPT
                             !.data = Obj(SelectSeq(Entries(config.data),
                                                    LAMBDA e : e[1] # key)),
                             !.steps = @ + 1,
                             !.ops = Append(@, [op |-> "delete", key |-> key,
                                                value |-> Undefined])]
            /\ stage' = stage
    /\ UNCHANGED <<heap, refs, handled, impl, client, sendArgs, fetchCall, aborted, response, outcome>>

\* NextBodyAppend.headers
Headers(headers) ==
    /\ impl = "index" /\ stage = "append" /\ config.steps < MaxChain
    /\ config' = [config EXCEPT !.headers = Spread(config.headers, headers),
                                !.steps = @ + 1,
                                !.hsteps = Append(@, headers)]
    /\ UNCHANGED <<heap, refs, handled, impl, stage, client, sendArgs, fetchCall, aborted, response, outcome>>

\* FormRequest.append
AppendField(key, file) ==
    /\ impl = "form" /\ stage = "append" /\ config.steps < MaxChain
    /\ config' = [config EXCEPT !.formData = FormAppend(config.formData, <<key>>, file),
                                !.steps = @ + 1]
    /\ UNCHANGED <<heap, refs, handled, impl, stage, client, sendArgs, fetchCall, aborted, response, outcome>>

----------------------------------------------------------------------------
(* send(): from the call to the transport call *)

Call(method, url, headers, body, opts) ==
    [t |-> "call", method |-> method, url |-> url, headers |-> headers,
     body |-> body, opts |-> opts]

FormBody(fields) == [t |-> "formdata", fields |-> fields]

NoBody(b) == b.t \in {"null", "undefined"}

\* params?.name || fallback
ParamOr(params, name, fallback) ==
    IF name \in DOMAIN params /\ params[name] # "" THEN params[name] ELSE fallback

\* The params the Executer holds: Parser.exec constructs it from the config alone.
ExecuterParams(params) == EmptyMap

\* Executer.fetcher: [threw, call]
fetcher(cfg, url, formData, params) ==
    LET headers  == cfg.headers
        formBody == cfg.method # "GET" /\ cfg.isForm /\ formData.t = "formdata"
        jsonBody == cfg.method # "GET" /\ ~formBody /\ Truthy(cfg.data)
        s        == Stringify(cfg.data)
        body     == IF formBody THEN formData
                    ELSE IF jsonBody THEN s.body
                    ELSE Null
        finalHeaders ==
            IF formBody THEN DeleteKeyOf(headers, "Content-Type")
            ELSE IF jsonBody
                 THEN Spread(headers,
                             "Content-Type" :> ParamOr(headers, "Content-Type", JsonCT))
                 ELSE headers
        opts == ("cache" :> "no-store")
                    @@ ("signal" :> ParamOr(params, "signal", "null"))
                    @@ ("credentials" :> ParamOr(params, "credentials", "same-origin"))
                    @@ ("mode" :> ParamOr(params, "mode", "cors"))
                    @@ ("referrerPolicy" :> ParamOr(params, "referrerPolicy", "no-referrer"))
    IN  IF jsonBody /\ s.threw
        THEN [threw |-> TRUE, call |-> NoCall]
        ELSE [threw |-> FALSE, call |-> Call(cfg.method, url, finalHeaders, body, opts)]

\* The config each send() of index.ts hands to the Parser
ClientSendConfig ==
    [BlankConfig EXCEPT !.baseUrl = client.baseUrl, !.prefix = client.prefix,
                        !.headers = client.headers,
                        !.data = Obj(<< <<"baseUrl", Str(client.baseUrl)>> >>)]

BodySendConfig(cfg) == [cfg EXCEPT !.isForm = TRUE, !.data = Undefined]

\* new Parser(config, params) followed by parser.exec(): [outcome, call]
ParserSend(cfg, params) ==
    LET u  == generateUrl(cfg)
        fd == IF cfg.isForm THEN FormBody(jsonToFormData(cfg.data, <<>>, <<>>))
              ELSE Undefined
        f  == fetcher(cfg, u.url, fd, ExecuterParams(params))
    IN  IF u.threw \/ (cfg.isForm /\ FormThrows(cfg.data))
        THEN [outcome |-> ThrewSync("TypeError"), call |-> NoCall]
        ELSE IF f.threw
             THEN [outcome |-> Rejected("TypeError", 0, Undefined, <<>>), call |-> NoCall]
             ELSE [outcome |-> Pending, call |-> f.call]

\* FormRequest.send up to the fetch call
FormRequestSend(cfg, headers, init) ==
    LET u == LegacyUrl(cfg)
    IN  IF u.threw
        THEN [outcome |-> Rejected("TypeError", 0, Undefined, <<>>), call |-> NoCall]
        ELSE [outcome |-> Pending,
              call |-> Call(cfg.method, u.url, Spread(cfg.headers, headers),
                            IF cfg.method = "GET" THEN Null ELSE FormBody(cfg.formData),
                            Spread(cfg.opts, init))]

\* ToPath.send: a FormRequest over an empty FormData
ToPathSend(cfg, headers, init) ==
    FormRequestSend([cfg EXCEPT !.formData = <<>>], headers, init)

\* JsonRequest.send up to the fetch call
JsonRequestSend(cfg, headers) ==
    LET u == LegacyUrl(cfg)
        s == Stringify(cfg.data)
    IN  IF u.threw \/ s.threw
        THEN [outcome |-> Rejected("TypeError", 0, Undefined, <<>>), call |-> NoCall]
        ELSE [outcome |-> Pending,
              call |-> Call(cfg.method, u.url,
                            Spread(Spread("Content-Type" :> JsonCT, cfg.headers), headers),
                            s.body, cfg.opts)]

\* fetch() rejects a GET or HEAD request that is given a body
FetchRefuses(call) == call.method \in {"GET", "HEAD"} /\ ~NoBody(call.body)

Send(headers, opts) ==
    /\ stage \in {"client", "body", "append"}
    /\ stage = "client" => impl = "index"
    /\ impl = "index" => headers = EmptyMap
    /\ impl = "json" => opts = EmptyMap
    /\ LET r == CASE impl = "index" /\ stage = "client" -> ParserSend(ClientSendConfig, opts)
                  [] impl = "index" /\ stage = "body" ->
                         ParserSend(BodySendConfig(config), opts)
                  [] impl = "index" /\ stage = "append" -> ParserSend(config, opts)
                  [] impl = "legacy" -> ToPathSend(config, headers, opts)
                  [] impl = "form" -> FormRequestSend(config, headers, opts)
                  [] OTHER -> JsonRequestSend(config, headers)
       IN  /\ fetchCall' = r.call
           /\ IF r.call = NoCall
              THEN /\ outcome' = r.outcome
                   /\ stage' = "settled"
              ELSE IF FetchRefuses(r.call)
              THEN /\ outcome' = Rejected("TypeError", 0, Undefined, <<>>)
                   /\ stage' = "settled"
              ELSE /\ outcome' = Pending
                   /\ stage' = "inflight"
    /\ impl' = IF impl = "legacy" THEN "form" ELSE impl
    /\ sendArgs' = [headers |-> headers, opts |-> opts]
    /\ UNCHANGED <<heap, refs, handled, client, config, aborted, response>>

----------------------------------------------------------------------------
(* The transport call in flight *)

\* The caller triggers the cancellation token it handed to send(); the transport
\* aborts the call only if it was given that token.
Abort ==
    /\ stage = "inflight" /\ ~aborted
    /\ "signal" \in DOMAIN sendArgs.opts
    /\ aborted' = TRUE
    /\ IF "signal" \in DOMAIN fetchCall.opts /\ fetchCall.opts["signal"] = sendArgs.opts["signal"]
       THEN /\ outcome' = Rejected("AbortError", 0, Undefined, <<>>)
            /\ stage' = "settled"
       ELSE UNCHANGED <<outcome, stage>>
    /\ UNCHANGED <<heap, refs, handled, impl, client, config, sendArgs, fetchCall, response>>

\* The transport delivers a response and send() decodes it.
TransportRespond(r) ==
    /\ stage = "inflight"
    /\ response' = r
    /\ outcome' = Decode(impl, r)
    /\ stage' = "settled"
    /\ UNCHANGED <<heap, refs, handled, impl, client, config, sendArgs, fetchCall, aborted>>

\* The transport fails without a response (network unreachable, DNS failure).
TransportFail ==
    /\ stage = "inflight"
    /\ outcome' = Rejected("TypeError", 0, Undefined, <<>>)
    /\ stage' = "settled"
    /\ UNCHANGED <<heap, refs, handled, impl, client, config, sendArgs, fetchCall, aborted, response>>

\* response.statusText as the transport reports it
StatusText(status) ==
    CASE status = 300 -> "Multiple Choices"
      [] status = 304 -> "Not Modified"
      [] status = 404 -> "Not Found"
      [] OTHER -> ""

\* The fields Executer.exec gives the NextApiError it throws, next to the body
\* that outcome.data holds.
ErrorFields ==
    [statusText |-> StatusText(response.status),
     url        |-> fetchCall.url,
     message    |-> <<"HTTP Error: ", response.status, StatusText(response.status)>>]

\* the callback of handleNextError is handed the body as it is
CallbackArgExact(data, error) ==
    [data |-> data, statusText |-> error.statusText, url |-> error.url,
     message |-> error.message]

\* the argument handleNextError hands its callback: error.response?.data || {}
CallbackArg(data, error) ==
    [data |-> IF Truthy(data) THEN data ELSE Obj(<<>>),
     statusText |-> error.statusText, url |-> error.url, message |-> error.message]

\* handleNextError(error, callback, pass) on the error send() ended with; pass is
\* optional.
HandleNextError(passGiven) ==
    /\ stage = "settled" /\ outcome.kind \in {"rejected", "threw"}
    /\ handled' =
           IF outcome.err = "NextApiError"
           THEN [callbacks |-> << CallbackArg(outcome.data, ErrorFields) >>,
                 passes |-> 0, passGiven |-> passGiven]
           ELSE [callbacks |-> <<>>,
                 passes |-> IF passGiven THEN 1 ELSE 0, passGiven |-> passGiven]
    /\ stage' = "handled"
    /\ UNCHANGED <<heap, refs, impl, client, config, sendArgs, fetchCall, aborted, response, outcome>>

Next ==
    \/ \E m \in Methods, q \in Queries : Verb(m, q)
    \/ \E d \in Payloads : SelectForm(d)
    \/ \E d \in Payloads : SelectJson(d)
    \/ \E k \in SetKeys, v \in SetValues : SetKey(k, v)
    \/ \E k \in SetKeys : DeleteKey(k)
    \/ \E h \in CallHeaders : Headers(h)
    \/ \E k \in SetKeys, v \in SetValues : AppendField(k, v)
    \/ \E h \in CallHeaders \cup {EmptyMap}, o \in ParamSets : Send(h, o)
    \/ Abort
    \/ \E r \in Responses : TransportRespond(r)
    \/ TransportFail
    \/ \E g \in BOOLEAN : HandleNextError(g)

Spec == Init /\ [][Next]_vars

----------------------------------------------------------------------------
(* Properties *)

Responded   == stage = "settled" /\ response # NoResponse
Success(st) == st \in 200..299
Classified  == outcome.err \in {"NextApiError", "HttpError"}
CalledFetch == fetchCall # NoCall
XObject     == Obj(<< <<"x", Num(1)>> >>)

\* C1: a GET request's transport call carries no body, whatever body mode and
\* payload the chain selected.
C1_GetCarriesNoBody ==
    (CalledFetch /\ fetchCall.method = "GET") => NoBody(fetchCall.body)

\* C2: a response whose status is outside 200-299 makes send() reject with a
\* classified error that carries the response status and, when the body is JSON,
\* the parsed body.
C2_ErrorStatusRejectsClassified ==
    (Responded /\ ~Success(response.status)) =>
        /\ outcome.kind = "rejected"
        /\ Classified
        /\ outcome.status = response.status
        /\ JsonParse(response.text).ok => outcome.data = JsonParse(response.text).value

C2_Witness ==
    /\ impl = "index" /\ Responded
    /\ response.status = 404 /\ response.text = "{\"x\":1}"
    /\ outcome.err = "NextApiError" /\ outcome.status = 404 /\ outcome.data = XObject

\* C3: a response whose status is outside 200-299 and whose body is not JSON makes
\* send() reject with a classified error that carries the raw text of the body.
C3_ErrorBodyFallsBackToText ==
    (Responded /\ ~Success(response.status) /\ ~JsonParse(response.text).ok) =>
        /\ outcome.kind = "rejected"
        /\ Classified
        /\ outcome.data = Str(response.text)

\* C4: a 200-299 response whose Content-Type contains text/ or is empty makes
\* send() resolve with the response status and the raw body text, for every body.
C4_TextResolvesWithRawText ==
    (/\ Responded /\ Success(response.status)
     /\ (Includes(response.contentType, TextSlash) \/ response.contentType = <<>>)) =>
        /\ outcome.kind = "resolved"
        /\ outcome.status = response.status
        /\ outcome.data = Str(response.text)

\* C5: a 200-299 response whose Content-Type is non-empty and contains neither
\* application/json nor text/ makes send() reject with a generic error, never a
\* classified one, and never resolve.
C5_UnsupportedTypeRejectsGeneric ==
    (/\ Responded /\ Success(response.status)
     /\ response.contentType # <<>>
     /\ ~Includes(response.contentType, AppJson)
     /\ ~Includes(response.contentType, TextSlash)) =>
        /\ outcome.kind = "rejected"
        /\ ~Classified

\* C6: a 200-299 response whose Content-Type contains application/json and whose
\* body is valid JSON makes send() resolve with the status and the parsed body.
C6_JsonResolvesWithParsedBody ==
    (/\ Responded /\ Success(response.status)
     /\ Includes(response.contentType, AppJson)
     /\ JsonParse(response.text).ok) =>
        /\ outcome.kind = "resolved"
        /\ outcome.status = response.status
        /\ outcome.data = JsonParse(response.text).value

C6_Witness ==
    /\ impl = "form" /\ Responded
    /\ response.status = 299
    /\ response.contentType = <<"application/", "json", "; charset=utf-8">>
    /\ response.text = "{\"x\":1}"
    /\ outcome.kind = "resolved" /\ outcome.status = 299 /\ outcome.data = XObject

ParamNames == {"signal", "credentials", "mode", "referrerPolicy"}

ParamDefault(name) ==
    CASE name = "signal" -> "null"
      [] name = "credentials" -> "same-origin"
      [] name = "mode" -> "cors"
      [] OTHER -> "no-referrer"

\* C7: the signal, credentials, mode and referrer policy handed to send() are the
\* values given to the transport call; the defaults stand in only for the options
\* the caller left out.
C7_ParamsReachTransport ==
    (CalledFetch /\ impl = "index") =>
        \A n \in ParamNames :
            fetchCall.opts[n] = ParamOr(sendArgs.opts, n, ParamDefault(n))

\* C8: a cancellation token handed to send() and triggered while the call is in
\* flight aborts the call: send() settles with a rejection and never resolves
\* with the response.
C8_AbortRejects ==
    (aborted /\ stage = "settled") => outcome.kind = "rejected"

\* C9: every failure of send() is a rejection of the returned promise, never a
\* synchronous throw; the rejection is classified exactly when a response with a
\* status outside 200-299 was received, and other failures carry no status code.
C9_FailuresAreRejections ==
    (stage = "settled" /\ outcome.kind # "resolved") =>
        /\ outcome.kind = "rejected"
        /\ Classified <=> (response # NoResponse /\ ~Success(response.status))
        /\ ~Classified => outcome.status = 0

\* C10: in form mode with a non-GET method the headers given to the transport call
\* hold no Content-Type header under any spelling of the name.
C10_FormSendsNoContentType ==
    (CalledFetch /\ config.mode = "form" /\ fetchCall.method # "GET") =>
        ~HasHeader(fetchCall.headers, "content-type")

\* The headers the caller supplied: client defaults, headers() steps, then the
\* headers handed to send().
CallerHeaders == Spread(config.headers, sendArgs.headers)

\* The values the transport sees for a header: HTTP header names are
\* case-insensitive, so every spelling of the name contributes.
HeaderValues(h, lname) == { h[n] : n \in { m \in DOMAIN h : Lower(m) = lname } }

\* C11: in JSON mode with a non-GET method the transport body is the JSON text of
\* the payload, for every payload value, and the Content-Type sent is
\* application/json unless the caller supplied a Content-Type, in which case
\* exactly the caller's value is sent.
C11_JsonBodyAndContentType ==
    (/\ CalledFetch /\ config.mode = "json" /\ fetchCall.method # "GET"
     /\ config.data # Undefined) =>
        /\ fetchCall.body = [t |-> "jsontext", v |-> JsonValue(config.data)]
        /\ HeaderValues(fetchCall.headers, "content-type") =
               IF HasHeader(CallerHeaders, "content-type")
               THEN HeaderValues(CallerHeaders, "content-type")
               ELSE {JsonCT}

\* C12: a POST or DELETE request sent without form() or json() carries no body in
\* its transport call.
C12_NoneModeSendsNoBody ==
    (CalledFetch /\ config.mode = "none" /\ fetchCall.method # "GET") =>
        NoBody(fetchCall.body)

\* The header-setting steps of the chain in order: the client defaults, the
\* headers() calls, the headers handed to send().
HeaderLayers == <<client.headers>> \o config.hsteps \o <<sendArgs.headers>>

HeaderNames == {"content-type", "x-trace"}

\* The value the latest step that set the header gave it.
LatestValue(lname) ==
    LET setters == { i \in 1..Len(HeaderLayers) : HasHeader(HeaderLayers[i], lname) }
        last    == CHOOSE i \in setters : \A j \in setters : j <= i
    IN  HeaderValues(HeaderLayers[last], lname)

\* C13: for every header name some step set, the transport call is given the value
\* of the latest step that set that name (a name is the same name under every
\* spelling; the Content-Type that form mode removes is left aside).
C13_LatestHeaderWins ==
    CalledFetch =>
        \A lname \in HeaderNames :
            (/\ \E i \in 1..Len(HeaderLayers) : HasHeader(HeaderLayers[i], lname)
             /\ ~(lname = "content-type" /\ fetchCall.body.t = "formdata")) =>
                HeaderValues(fetchCall.headers, lname) = LatestValue(lname)

----------------------------------------------------------------------------
(* The encoders on their own: an input value, then one run of the encoder *)

\* how many mappings deep an encoder input nests
MaxDepth == 2

EncScalars ==
    { Undefined, Null, Str(""), Str("s"), Num(0), Num(7), Bool(FALSE), Bool(TRUE) }

TwoFiles == Arr(<<FileV("f1"), FileV("f2")>>)

FormLeaves ==
    EncScalars \cup
    { FileV("f1"), Arr(<<>>), TwoFiles, Arr(<<Num(1), Null>>),
      Arr(<<FileV("f2"), Str("s"), FileV("f1")>>),
      Arr(<<Num(0), Undefined, Bool(FALSE), Obj(<< <<"b", Num(1)>> >>)>>),
      BlobV("b1"), Obj(<< <<"hasOwnProperty", Str("s")>> >>) }

NestKeys == {"b", "c"}

\* the leaves, and the leaves under up to d nested mappings
RECURSIVE Nested(_, _)
Nested(leaves, d) ==
    IF d = 0 THEN leaves
    ELSE leaves \cup { Obj(<< <<k, v>> >>) : k \in NestKeys, v \in Nested(leaves, d - 1) }

SecondValues == { Str("t"), Null, Arr(<<>>) }

FormInputs ==
    { Obj(<< <<"a", v>> >>) : v \in Nested(FormLeaves, MaxDepth) }
    \cup
    { Obj(<< <<"a", v>>, <<"z", w>> >>) :
          v \in Nested(FormLeaves, MaxDepth), w \in SecondValues }

QueryLeafValues == { Undefined, Null, Str("s"), Num(0), Num(1), Num(2), Arr(<<Num(1), Num(2)>>) }

QueryKeys == {"a", "a[b]"}

QueryInputs ==
    { Obj(<< <<k, v>> >>) : k \in QueryKeys, v \in Nested(QueryLeafValues, MaxDepth) }
    \cup
    { Obj(<< <<kk[1], v1>>, <<kk[2], v2>> >>) :
          kk \in { p \in QueryKeys \X QueryKeys : p[1] # p[2] },
          v1 \in Nested(QueryLeafValues, 1), v2 \in Nested(QueryLeafValues, 1) }

\* The encoder under test: "index" is Parser of index.ts (ToPath.jsonToFormData is
\* the same code), "formjs" the compiled form.js, "legacy" the first client.
InitEncode ==
    /\ stage \in {"form", "query"}
    /\ impl \in IF stage = "form" THEN {"index", "formjs"} ELSE {"index", "legacy"}
    /\ config \in IF stage = "form"
                  THEN { [BlankConfig EXCEPT !.data = d, !.isForm = TRUE, !.mode = "form"] :
                             d \in FormInputs }
                  ELSE { [BlankConfig EXCEPT !.query = q] : q \in QueryInputs }
    /\ client = [baseUrl |-> "https://api.example.com", prefix |-> "",
                 headers |-> EmptyMap, opts |-> EmptyMap]
    /\ sendArgs = NoArgs
    /\ fetchCall = NoCall
    /\ aborted = FALSE
    /\ response = NoResponse
    /\ outcome = Pending
    /\ handled = NoHandling
    /\ heap = <<>>
    /\ refs = NoRefs

\* this.jsonToFormData(config.data) of Parser.constructor; ToPath.form of form.js
EncodeForm ==
    /\ stage = "form"
    /\ IF (IF impl = "formjs" THEN LegacyFormThrows(config.data)
           ELSE FormThrows(config.data))
       THEN /\ stage' = "form-failed"
            /\ UNCHANGED config
       ELSE /\ config' = [config EXCEPT
                             !.formData =
                                 IF impl = "formjs" THEN LegacyJsonToFormData(config.data)
                                 ELSE jsonToFormData(config.data, <<>>, <<>>)]
            /\ stage' = "form-encoded"
    /\ UNCHANGED <<heap, refs, handled, impl, client, sendArgs, fetchCall, aborted, response, outcome>>

\* this.setSearchParams(config.query) of Parser.generateUrl; of the first client's verbs
EncodeQuery ==
    /\ stage = "query"
    /\ LET sp == IF impl = "index" THEN setSearchParams(config.query)
                 ELSE LegacySetSearchParams(config.query)
       IN  IF sp.threw
           THEN /\ stage' = "failed"
                /\ UNCHANGED config
           ELSE /\ config' = [config EXCEPT !.searchParams = sp.list]
                /\ stage' = "query-encoded"
    /\ UNCHANGED <<heap, refs, handled, impl, client, sendArgs, fetchCall, aborted, response, outcome>>

NextEncode == EncodeForm \/ EncodeQuery

SpecEncode == InitEncode /\ [][NextEncode]_vars

----------------------------------------------------------------------------
(* Properties of the encoders *)

\* The values of a mapping reached through nested mappings only, each with its
\* key path k1, ..., kn.
RECURSIVE MappingLeaves(_, _)
MappingLeaves(v, prefix) ==
    UNION { IF v.entries[i][2].t = "object"
            THEN MappingLeaves(v.entries[i][2], Append(prefix, v.entries[i][1]))
            ELSE { [path |-> Append(prefix, v.entries[i][1]), value |-> v.entries[i][2]] } :
            i \in 1..Len(v.entries) }

FieldsNamed(fd, name) == SelectSeq(fd, LAMBDA f : f.name = name)

FormEncoded == stage = "form-encoded"

\* the encoder of index.ts and of ToPath, which recurses into nested mappings
RecursiveEncoder == impl # "formjs"

\* C14: an empty sequence under a key, at any depth of nested mappings, yields
\* exactly one field, named by the key path, whose value is the empty string.
C14_EmptySequenceOneEmptyField ==
    FormEncoded =>
        \A l \in MappingLeaves(config.data, <<>>) :
            l.value = Arr(<<>>) =>
                FieldsNamed(config.formData, l.path) =
                    << [name |-> l.path, value |-> Str("")] >>

IsScalar(v) == v.t \in {"string", "number", "boolean"}

\* C15: a scalar reached through nested mappings by the key path k1, ..., kn
\* yields exactly one field named k1[k2]...[kn] whose value is the scalar's string
\* conversion, for every depth n >= 1.
C15_NestedScalarOneQualifiedField ==
    FormEncoded =>
        \A l \in MappingLeaves(config.data, <<>>) :
            IsScalar(l.value) =>
                FieldsNamed(config.formData, l.path) =
                    << [name |-> l.path, value |-> ToStr(l.value)] >>

AllFiles(v) ==
    /\ v.t = "array" /\ Len(v.items) > 0
    /\ \A i \in 1..Len(v.items) : v.items[i].t = "file"

\* C16: the recursive encoder appends each file of a sequence of files as a field
\* of its own under the sequence's key, without an index suffix, in array order.
C16_FileSequenceRepeatsKey ==
    (FormEncoded /\ RecursiveEncoder) =>
        \A l \in MappingLeaves(config.data, <<>>) :
            AllFiles(l.value) =>
                /\ FieldsNamed(config.formData, l.path) =
                       [i \in 1..Len(l.value.items) |->
                            [name |-> l.path, value |-> l.value.items[i]]]
                /\ \A j \in 1..Len(l.value.items) :
                       FieldsNamed(config.formData, Append(l.path, NumStr(j - 1))) = <<>>

C16_Witness ==
    /\ FormEncoded /\ impl = "index"
    /\ config.data = Obj(<< <<"a", TwoFiles>>, <<"z", Str("t")>> >>)
    /\ config.formData = << [name |-> <<"a">>, value |-> FileV("f1")],
                            [name |-> <<"a">>, value |-> FileV("f2")],
                            [name |-> <<"z">>, value |-> Str("t")] >>

\* the text of each scalar the inputs hold
ScalarText(v) ==
    CASE v = Num(0) -> "0" [] v = Num(1) -> "1" [] v = Num(2) -> "2" [] v = Num(7) -> "7"
      [] v = Bool(FALSE) -> "false" [] v = Bool(TRUE) -> "true"
      [] v.t = "string" -> v.s
      [] OTHER -> ""

\* C17: the recursive encoder yields exactly one field, never none, for every
\* scalar, null or undefined value of a mapping, under its fully qualified key:
\* the empty string for null and undefined, the string conversion otherwise
\* (0 gives "0", false gives "false").
C17_ScalarsNeverOmitted ==
    (FormEncoded /\ RecursiveEncoder) =>
        \A l \in MappingLeaves(config.data, <<>>) :
            (IsScalar(l.value) \/ l.value.t \in {"null", "undefined"}) =>
                FieldsNamed(config.formData, l.path) =
                    << [name |-> l.path, value |-> Str(ScalarText(l.value))] >>

C17_Witness ==
    /\ FormEncoded /\ impl = "index"
    /\ config.data = Obj(<< <<"a", Obj(<< <<"b", Num(0)>> >>)>>, <<"z", Null>> >>)
    /\ config.formData = << [name |-> <<"a", "b">>, value |-> Str("0")],
                            [name |-> <<"z">>, value |-> Str("")] >>

\* The [name, value] pairs a query resolves to, in the encoder's order: nested
\* mappings give bracketed names in index.ts; the first client takes the keys as
\* they are.
RECURSIVE QueryPairs(_, _)
QueryPairs(es, name) ==
    IF es = <<>> THEN <<>>
    ELSE LET key   == es[1][1]
             value == es[1][2]
             n     == IF name = <<>> THEN KeyTokens(key) ELSE Append(name, key)
         IN  (IF impl = "index" /\ value.t = "object"
              THEN QueryPairs(value.entries, n)
              ELSE << [name |-> n, value |-> value] >>)
             \o QueryPairs(Tail(es), name)

QueryEncoded == stage = "query-encoded"

\* C18: the encoded query holds at most one parameter per final name, and where
\* several entries resolve to one name the value of the last of them.
C18_QueryLastWriteWins ==
    QueryEncoded =>
        LET pairs == QueryPairs(config.query.entries, <<>>)
            sp    == config.searchParams
        IN  /\ \A i, j \in 1..Len(sp) : sp[i].name = sp[j].name => i = j
            /\ { sp[i].name : i \in 1..Len(sp) } = { pairs[i].name : i \in 1..Len(pairs) }
            /\ \A i \in 1..Len(pairs) :
                   (\A j \in (i + 1)..Len(pairs) : pairs[j].name # pairs[i].name) =>
                       \E k \in 1..Len(sp) :
                           /\ sp[k].name = pairs[i].name
                           /\ sp[k].value = ToStr(pairs[i].value)

C18_Witness ==
    /\ QueryEncoded /\ impl = "index"
    /\ config.query = Obj(<< <<"a[b]", Num(1)>>, <<"a", Obj(<< <<"b", Num(2)>> >>)>> >>)
    /\ config.searchParams = << [name |-> <<"a", "b">>, value |-> Str("2")] >>

Handled == stage = "handled"

\* C20 as stated: for a NextApiError the callback is invoked exactly once, with the
\* error's response body as data and its statusText, url and message, and pass is
\* never invoked; for every other error the callback is never invoked and pass,
\* when supplied, is invoked exactly once.
C20_CallbackGetsResponseBody ==
    Handled =>
        IF outcome.err = "NextApiError"
        THEN /\ handled.callbacks = << CallbackArgExact(outcome.data, ErrorFields) >>
             /\ handled.passes = 0
        ELSE /\ handled.callbacks = <<>>
             /\ handled.passGiven => handled.passes = 1

\* C20 amended: as above, but the data handed to the callback is the error's
\* response body only when that body is truthy; a missing or falsy body is handed
\* as an empty object.
C20_CallbackGetsBodyOrEmptyObject ==
    Handled =>
        IF outcome.err = "NextApiError"
        THEN /\ Len(handled.callbacks) = 1
             /\ handled.callbacks[1].data =
                    (IF outcome.data \in {Undefined, Null, Str(""), Num(0), Bool(FALSE)}
                     THEN Obj(<<>>) ELSE outcome.data)
             /\ handled.callbacks[1].statusText = StatusText(response.status)
             /\ handled.callbacks[1].url = fetchCall.url
             /\ handled.callbacks[1].message =
                    <<"HTTP Error: ", response.status, StatusText(response.status)>>
             /\ handled.passes = 0
        ELSE /\ handled.callbacks = <<>>
             /\ handled.passes = IF handled.passGiven THEN 1 ELSE 0

C20_Witness ==
    /\ Handled /\ outcome.err = "NextApiError"
    /\ response.status = 304 /\ outcome.data = Str("")
    /\ Len(handled.callbacks) = 1 /\ handled.callbacks[1].data = Obj(<<>>)
    /\ handled.callbacks[1].statusText = "Not Modified"
    /\ handled.passes = 0

----------------------------------------------------------------------------
(* Two requests built and sent through one client.  The chain variables are     *)
(* functions of the chain; the client is the one object both chains start from. *)

Chains == {1, 2}

ChainPath(c) == IF c = 1 THEN "items" ELSE "users"

ChainQueries == { Obj(<< <<"q", Num(1)>> >>), Obj(<< <<"q", Num(2)>> >>) }

ChainMethods == {"GET", "POST"}

ChainPayloads == { Obj(<< <<"a", Str("1")>> >>) }

ChainResponses ==
    { [status |-> 200, contentType |-> AppJson, text |-> "{\"x\":1}"],
      [status |-> 404, contentType |-> <<"text/", "plain">>, text |-> "oops"] }

\* the client of the two chains; the first client keeps the query it encoded last
\* in this.searchParams
InitTwo ==
    /\ impl \in {"index", "legacy"}
    /\ client \in { [baseUrl |-> "https://api.example.com", prefix |-> "",
                     headers |-> h, opts |-> EmptyMap, searchParams |-> <<>>] :
                        h \in ClientHeaders }
    /\ stage = [c \in Chains |-> "client"]
    /\ config = [c \in Chains |-> BlankConfig]
    /\ sendArgs = [c \in Chains |-> NoArgs]
    /\ fetchCall = [c \in Chains |-> NoCall]
    /\ response = [c \in Chains |-> NoResponse]
    /\ outcome = [c \in Chains |-> Pending]
    /\ aborted = FALSE
    /\ handled = NoHandling
    /\ heap = <<>>
    /\ refs = NoRefs

\* the pipeline a chain runs through
Pipeline(cfg) ==
    IF impl = "index" THEN "index" ELSE IF cfg.mode = "json" THEN "json" ELSE "form"

\* the query a ToPath of the client's own reads at send(): the client's
\* this.searchParams as it is then
ClientSearchParams(cfg) == client.searchParams

\* the query a ToPath reads at send(): the URLSearchParams its constructor was given
ToPathSearchParams(cfg) == cfg.searchParams

\* get / post of either client; the first client assigns this.searchParams and
\* hands the same object to the ToPath
ChainVerb(c, method, query) ==
    /\ stage[c] = "client"
    /\ IF impl = "index"
       THEN /\ config' = [config EXCEPT ![c] = createRequest(method, ChainPath(c), query)]
            /\ UNCHANGED client
       ELSE LET sp == LegacySetSearchParams(query)
            IN  /\ client' = [client EXCEPT !.searchParams = sp.list]
                /\ config' = [config EXCEPT ![c] =
                                 [LegacyVerb(method, ChainPath(c), sp.list)
                                      EXCEPT !.query = query]]
    /\ stage' = [stage EXCEPT ![c] = "body"]
    /\ UNCHANGED <<heap, refs, impl, sendArgs, fetchCall, aborted, response, outcome, handled>>

\* NextClientBody.json; ToPath.json
ChainJson(c, data) ==
    /\ stage[c] = "body"
    /\ config' = [config EXCEPT ![c] =
                     [@ EXCEPT !.data = data, !.isForm = FALSE, !.mode = "json"]]
    /\ stage' = [stage EXCEPT ![c] = "append"]
    /\ UNCHANGED <<heap, refs, impl, client, sendArgs, fetchCall, aborted, response, outcome, handled>>

\* NextBodyAppend.headers
ChainHeaders(c, headers) ==
    /\ impl = "index" /\ stage[c] = "append" /\ config[c].steps < MaxChain
    /\ config' = [config EXCEPT ![c] =
                     [@ EXCEPT !.headers = Spread(@, headers), !.steps = @ + 1,
                               !.hsteps = Append(@, headers)]]
    /\ UNCHANGED <<heap, refs, impl, stage, client, sendArgs, fetchCall, aborted, response, outcome,
                   handled>>

\* what send() does with a chain's request: [outcome, call]
SendOf(cfg, headers) ==
    CASE Pipeline(cfg) = "index" /\ cfg.mode = "none" ->
             ParserSend(BodySendConfig(cfg), EmptyMap)
      [] Pipeline(cfg) = "index" /\ cfg.mode # "none" -> ParserSend(cfg, EmptyMap)
      [] Pipeline(cfg) = "form" ->
             ToPathSend([cfg EXCEPT !.searchParams = ToPathSearchParams(cfg)],
                        headers, EmptyMap)
      [] OTHER ->
             JsonRequestSend([cfg EXCEPT !.searchParams = ToPathSearchParams(cfg)],
                             headers)

ChainSend(c, headers) ==
    /\ stage[c] \in {"body", "append"}
    /\ impl = "index" => headers = EmptyMap
    /\ LET r == SendOf(config[c], headers)
       IN  /\ fetchCall' = [fetchCall EXCEPT ![c] = r.call]
           /\ IF r.call = NoCall
              THEN /\ outcome' = [outcome EXCEPT ![c] = r.outcome]
                   /\ stage' = [stage EXCEPT ![c] = "settled"]
              ELSE IF FetchRefuses(r.call)
              THEN /\ outcome' = [outcome EXCEPT ![c] =
                                      Rejected("TypeError", 0, Undefined, <<>>)]
                   /\ stage' = [stage EXCEPT ![c] = "settled"]
              ELSE /\ UNCHANGED outcome
                   /\ stage' = [stage EXCEPT ![c] = "inflight"]
    /\ sendArgs' = [sendArgs EXCEPT ![c] = [headers |-> headers, opts |-> EmptyMap]]
    /\ UNCHANGED <<heap, refs, impl, client, config, aborted, response, handled>>

\* the transport completes one of the calls in flight, in either order
ChainRespond(c, r) ==
    /\ stage[c] = "inflight"
    /\ response' = [response EXCEPT ![c] = r]
    /\ outcome' = [outcome EXCEPT ![c] = Decode(Pipeline(config[c]), r)]
    /\ stage' = [stage EXCEPT ![c] = "settled"]
    /\ UNCHANGED <<heap, refs, impl, client, config, sendArgs, fetchCall, aborted, handled>>

NextTwo ==
    \/ \E c \in Chains, m \in ChainMethods, q \in ChainQueries : ChainVerb(c, m, q)
    \/ \E c \in Chains, d \in ChainPayloads : ChainJson(c, d)
    \/ \E c \in Chains, h \in CallHeaders : ChainHeaders(c, h)
    \/ \E c \in Chains, h \in CallHeaders \cup {EmptyMap} : ChainSend(c, h)
    \/ \E c \in Chains, r \in ChainResponses : ChainRespond(c, r)

SpecTwo == InitTwo /\ [][NextTwo]_vars

\* { ...headers, ...step } over the headers() steps in order
RECURSIVE SpreadAll(_, _)
SpreadAll(h, steps) ==
    IF steps = <<>> THEN h ELSE SpreadAll(Spread(h, Head(steps)), Tail(steps))

\* The request of chain c as its own steps alone define it: its verb, path and
\* query, its payload and headers() steps, over the client's construction-time
\* configuration.
OwnRequest(c) ==
    LET cfg == config[c]
    IN  [BlankConfig EXCEPT
            !.baseUrl = client.baseUrl, !.prefix = client.prefix, !.opts = client.opts,
            !.method = cfg.method, !.path = ChainPath(c), !.query = cfg.query,
            !.searchParams = IF impl = "index" THEN <<>>
                             ELSE LegacySetSearchParams(cfg.query).list,
            !.data = cfg.data, !.isForm = cfg.isForm, !.mode = cfg.mode,
            !.headers = SpreadAll(client.headers, cfg.hsteps)]

OwnCall(c) ==
    LET own == OwnRequest(c)
    IN  CASE impl = "index" /\ own.mode = "none" ->
                 ParserSend(BodySendConfig(own), EmptyMap).call
          [] impl = "index" /\ own.mode # "none" -> ParserSend(own, EmptyMap).call
          [] impl # "index" /\ own.mode = "none" ->
                 ToPathSend(own, sendArgs[c].headers, EmptyMap).call
          [] OTHER -> JsonRequestSend(own, sendArgs[c].headers).call

----------------------------------------------------------------------------
(* Further properties of the form encoder *)

\* C21: in form mode every string, Blob or File value of the payload is sent as a
\* field under its key; none is left out of the encoded form.
C21_FormValuesAllTransmitted ==
    FormEncoded =>
        \A i \in 1..Len(config.data.entries) :
            LET key   == config.data.entries[i][1]
                value == config.data.entries[i][2]
            IN  value.t \in {"string", "blob", "file"} =>
                    \E j \in 1..Len(config.formData) :
                        /\ config.formData[j].name = <<key>>
                        /\ config.formData[j].value = value

\* the key path of the mapping that holds the value at this path
Container(path) == IF Len(path) = 1 THEN path ELSE SubSeq(path, 1, Len(path) - 1)

\* C24: the recursive encoder appends a file found under key k of a nested mapping
\* as one field named by the mapping's own qualified key p, not p[k]; a top-level
\* file under k is one field named k.
C24_NestedFileUnderContainerKey ==
    (FormEncoded /\ RecursiveEncoder) =>
        \A l \in MappingLeaves(config.data, <<>>) :
            l.value.t = "file" =>
                /\ FieldsNamed(config.formData, Container(l.path)) =
                       << [name |-> Container(l.path), value |-> l.value] >>
                /\ Len(l.path) > 1 => FieldsNamed(config.formData, l.path) = <<>>

C24_Witness ==
    /\ FormEncoded /\ impl = "index"
    /\ config.data =
           Obj(<< <<"a", Obj(<< <<"b", Obj(<< <<"c", FileV("f1")>> >>)>> >>)>> >>)
    /\ config.formData = << [name |-> <<"a", "b">>, value |-> FileV("f1")] >>

\* the text of an array element that is no file: item?.toString() || ""
ElementText(item) ==
    IF item.t \in {"null", "undefined"} THEN Str("")
    ELSE IF IsScalar(item) THEN Str(ScalarText(item))
    ELSE IF item.t = "object" THEN Str("[object Object]")
    ELSE ToStr(item)

\* C25: for a non-empty sequence under a key, the recursive encoder yields for
\* each element that is no file exactly one field named key[i], i the element's
\* position in the array, whose value is the element's string conversion, or the
\* empty string for null and undefined.
C25_ArrayElementsIndexedByPosition ==
    (FormEncoded /\ RecursiveEncoder) =>
        \A l \in MappingLeaves(config.data, <<>>) :
            l.value.t = "array" =>
                \A i \in 1..Len(l.value.items) :
                    l.value.items[i].t # "file" =>
                        FieldsNamed(config.formData, Append(l.path, NumStr(i - 1))) =
                            << [name  |-> Append(l.path, NumStr(i - 1)),
                                value |-> ElementText(l.value.items[i])] >>

C25_Witness ==
    /\ FormEncoded /\ impl = "index"
    /\ config.data = Obj(<< <<"a", Arr(<<FileV("f2"), Str("s"), FileV("f1")>>)>> >>)
    /\ config.formData = << [name |-> <<"a">>, value |-> FileV("f2")],
                            [name |-> <<"a", "1">>, value |-> Str("s")],
                            [name |-> <<"a">>, value |-> FileV("f1")] >>

\* C26: the recursive encoder returns a field set, without raising an error, for
\* every input built of mappings with arbitrary string keys, sequences, scalars,
\* null and undefined.
C26_FormEncoderTotal ==
    RecursiveEncoder => stage # "form-failed"

----------------------------------------------------------------------------
(* Further properties of the query encoder *)

\* the parameter name a key path spells: k1[k2]...[kn]
ParamName(path) == KeyTokens(Head(path)) \o Tail(path)

QueryLeafSet == MappingLeaves(config.query, <<>>)

ParamsNamed(sp, name) == SelectSeq(sp, LAMBDA e : e.name = name)

\* C27: each scalar of the query reached by the key path k1, ..., kn is the
\* parameter k1[k2]...[kn] with the scalar's string conversion, at every depth
\* (where no other entry resolves to the same name).
C27_NestedQueryBracketNames ==
    QueryEncoded =>
        \A l \in QueryLeafSet :
            (/\ IsScalar(l.value)
             /\ \A m \in QueryLeafSet : ParamName(m.path) = ParamName(l.path) => m = l) =>
                ParamsNamed(config.searchParams, ParamName(l.path)) =
                    << [name |-> ParamName(l.path), value |-> Str(ScalarText(l.value))] >>

\* C28: an array under the query key k becomes one parameter k[i] per element, and
\* no single parameter k.
C28_QueryArrayIndexedParams ==
    QueryEncoded =>
        \A l \in QueryLeafSet :
            (/\ l.value.t = "array"
             /\ \A m \in QueryLeafSet : ParamName(m.path) = ParamName(l.path) => m = l) =>
                /\ ParamsNamed(config.searchParams, ParamName(l.path)) = <<>>
                /\ \A i \in 1..Len(l.value.items) :
                       ParamsNamed(config.searchParams,
                                   Append(ParamName(l.path), NumStr(i - 1))) =
                           << [name  |-> Append(ParamName(l.path), NumStr(i - 1)),
                               value |-> Str(ScalarText(l.value.items[i]))] >>

\* C30: the query encoder raises no error for a query of strings, numbers,
\* booleans, null, undefined, arrays and nested mappings.
C30_QueryEncoderNeverThrows ==
    stage # "failed"

----------------------------------------------------------------------------
(* Further properties of send() *)

\* C22: no read of a response body, as JSON or as text, is made on a body that an
\* earlier read already consumed.
C22_NoReadOfConsumedBody ==
    \A i \in 1..Len(outcome.reads) : ~outcome.reads[i].used

\* The payload after one set(key, value) or delete(key): set overwrites or adds the
\* key, delete removes it.
ApplyOp(data, o) ==
    LET es == Entries(data)
        others == SelectSeq(es, LAMBDA e : e[1] # o.key)
    IN  IF o.op = "delete" THEN Obj(others)
        ELSE IF others = es THEN Obj(Append(es, <<o.key, o.value>>))
        ELSE Obj([i \in 1..Len(es) |-> IF es[i][1] = o.key THEN <<o.key, o.value>>
                                       ELSE es[i]])

RECURSIVE ApplyOps(_, _)
ApplyOps(data, os) ==
    IF os = <<>> THEN data
    ELSE ApplyOps(ApplyOp(data, Head(os)), Tail(os))

\* C29: after form(d) or json(d), no set or delete call raises an error whatever d
\* is, and the payload send() is handed is d with the set and delete calls applied
\* in order.
C29_SetDeleteApplyInOrderNeverThrow ==
    (impl = "index" /\ config.mode \in {"form", "json"})
        => /\ stage # "failed"
           /\ stage = "append" => config.data = ApplyOps(config.given, config.ops)

----------------------------------------------------------------------------
(* Builders that share objects: a builder object, the payload object it was given
   and a FormData object are held by reference, so a step on one builder can be
   seen through another reference to the same object. The caller holds d (the
   payload), b1 (the builder form(d) / json(d) returned) and b2 (what a step on
   b1, or a second form(d) / json(d), returned). *)

Ref(a) == [t |-> "ref", at |-> a]

ForkPayloads ==
    { Obj(<< <<"a", Str("1")>> >>), Obj(<< <<"a", Str("1")>>, <<"b", Str("3")>> >>) }

\* new NextBodyAppend({...this.config, data, isForm}) over the payload at address d
NewBodyAppend(mode, d, given) ==
    [t |-> "NextBodyAppend",
     config |-> [createRequest("POST", ThePath, Undefined) EXCEPT
                     !.data = Ref(d), !.isForm = (mode = "form"), !.mode = mode,
                     !.given = given]]

\* new FormRequest(formData, path, host, init, method, searchParams) over the
\* FormData at address f
NewFormRequest(f, given) ==
    [t |-> "FormRequest",
     config |-> [LegacyVerb("POST", ThePath, <<>>) EXCEPT
                     !.formData = Ref(f), !.isForm = TRUE, !.mode = "form",
                     !.given = given]]

InitFork ==
    /\ impl \in {"index", "form"}
    /\ client \in Clients(IF impl = "index" THEN "index" ELSE "legacy")
    /\ stage = "fork"
    /\ config = BlankConfig
    /\ sendArgs = NoArgs
    /\ fetchCall = [b \in {"b1", "b2"} |-> NoCall]
    /\ aborted = FALSE
    /\ response = NoResponse
    /\ outcome = Pending
    /\ handled = NoHandling
    /\ \E d \in ForkPayloads, mode \in {"form", "json"} :
           IF impl = "index"
           THEN /\ heap = << d, NewBodyAppend(mode, 1, d) >>
                /\ refs = [d |-> 1, b1 |-> 2, b2 |-> 0, steps |-> 0]
           ELSE /\ mode = "form"
                /\ heap = << d, FormBody(jsonToFormData(d, <<>>, <<>>)),
                             NewFormRequest(2, d) >>
                /\ refs = [d |-> 1, b1 |-> 3, b2 |-> 0, steps |-> 0]

\* The config a builder object holds, with the objects it refers to read from the heap
Deref(h, a) ==
    IF h[a].t = "NextBodyAppend"
    THEN [h[a].config EXCEPT !.data = h[@.at]]
    ELSE [h[a].config EXCEPT !.formData = h[@.at].fields]

\* The transport call send() of the builder at address a would make
RequestOf(h, a) ==
    IF h[a].t = "NextBodyAppend"
    THEN ParserSend(Deref(h, a), EmptyMap).call
    ELSE FormRequestSend(Deref(h, a), EmptyMap, EmptyMap).call

\* A step is called on the builder the caller holds as b; the first step is
\* b2 = b1.step(...), later steps are called on b1 or b2 and their result dropped.
StepOn(b, result) ==
    /\ stage = "fork" /\ refs[b] # 0 /\ refs.steps <= MaxChain
    /\ refs.b2 = 0 => b = "b1"
    /\ refs' = [refs EXCEPT !.b2 = IF @ = 0 THEN result ELSE @, !.steps = @ + 1]
    /\ UNCHANGED <<impl, stage, client, config, sendArgs, fetchCall, aborted, response,
                   outcome, handled>>

\* NextBodyAppend.set: a new data object replaces the builder's, and the builder
\* itself is returned
ForkSet(b, key, value) ==
    LET a == refs[b]
    IN  /\ a # 0 /\ heap[a].t = "NextBodyAppend"
        /\ heap' = Append([heap EXCEPT ![a].config.data = Ref(Len(heap) + 1)],
                          SpreadSet(heap[heap[a].config.data.at], key, value))
        /\ StepOn(b, a)

\* NextBodyAppend.delete: the key is deleted from the data object itself, and the
\* builder itself is returned
ForkDelete(b, key) ==
    LET a == refs[b]
    IN  /\ a # 0 /\ heap[a].t = "NextBodyAppend"
        /\ heap' = [heap EXCEPT ![heap[a].config.data.at] =
                        Obj(SelectSeq(Entries(@), LAMBDA e : e[1] # key))]
        /\ StepOn(b, a)

\* NextBodyAppend.headers: the builder's config gets a new headers object, and the
\* builder itself is returned
ForkHeaders(b, headers) ==
    LET a == refs[b]
    IN  /\ a # 0 /\ heap[a].t = "NextBodyAppend"
        /\ heap' = [heap EXCEPT ![a].config.headers = Spread(@, headers)]
        /\ StepOn(b, a)

\* FormRequest.append: the field is appended to the FormData object itself, and a
\* new FormRequest over the same FormData object is returned
ForkAppend(b, key, file) ==
    LET a == refs[b]
    IN  /\ a # 0 /\ heap[a].t = "FormRequest"
        /\ heap' = Append([heap EXCEPT ![heap[a].config.formData.at].fields =
                               FormAppend(@, <<key>>, file)],
                          heap[a])
        /\ StepOn(b, Len(heap) + 1)

\* b2 = body.form(d) or body.json(d) a second time, with the same payload object:
\* NextClientBody builds a new NextBodyAppend over d; ToPath.form encodes d into a
\* new FormData
ForkBranch(mode) ==
    /\ stage = "fork" /\ refs.b2 = 0
    /\ IF impl = "index"
       THEN /\ heap' = Append(heap, NewBodyAppend(mode, refs.d, heap[refs.d]))
            /\ refs' = [refs EXCEPT !.b2 = Len(heap) + 1]
       ELSE /\ mode = "form"
            /\ heap' = heap \o << FormBody(jsonToFormData(heap[refs.d], <<>>, <<>>)),
                                  NewFormRequest(Len(heap) + 1, heap[refs.d]) >>
            /\ refs' = [refs EXCEPT !.b2 = Len(heap) + 2]
    /\ UNCHANGED <<impl, stage, client, config, sendArgs, fetchCall, aborted, response,
                   outcome, handled>>

\* send() on the builder the caller holds as b, up to the transport call
ForkSend(b) ==
    /\ stage = "fork" /\ refs[b] # 0
    /\ fetchCall[b] = NoCall
    /\ fetchCall' = [fetchCall EXCEPT ![b] = RequestOf(heap, refs[b])]
    /\ UNCHANGED <<impl, stage, client, config, sendArgs, aborted, response, outcome,
                   handled, heap, refs>>

NextFork ==
    \/ \E b \in {"b1", "b2"}, k \in SetKeys, v \in SetValues : ForkSet(b, k, v)
    \/ \E b \in {"b1", "b2"}, k \in SetKeys : ForkDelete(b, k)
    \/ \E b \in {"b1", "b2"}, h \in CallHeaders : ForkHeaders(b, h)
    \/ \E b \in {"b1", "b2"}, k \in SetKeys, v \in SetValues : ForkAppend(b, k, v)
    \/ \E mode \in {"form", "json"} : ForkBranch(mode)
    \/ \E b \in {"b1", "b2"} : ForkSend(b)

SpecFork == InitFork /\ [][NextFork]_vars

\* C23: a builder step changes neither the request any builder the caller already
\* holds would send (the builder the step was called on included) nor the caller's
\* payload object.
C23_StepsLeaveBuildersAndPayload ==
    [][ /\ \A b \in {"b1", "b2"} :
               refs[b] # 0 => RequestOf(heap', refs[b]) = RequestOf(heap, refs[b])
        /\ refs.d # 0 => heap'[refs.d] = heap[refs.d] ]_vars

====
